---- MODULE Spec2Model ----
(***************************************************************************)
(* Anti-unification (least general generalization) of symbolic terms.      *)
(*                                                                         *)
(* The model covers the first-order engine (anti_unify, anti_unify_list    *)
(* of single-order-AU.py) and the restricted higher-order engine           *)
(* (ho_anti_unify, _ho_au and its helpers of higher-order-AU.py).  The     *)
(* recursion of the engines is unfolded into an explicit call stack: one   *)
(* frame per active call, one action per branch of the code, so that the   *)
(* shared fresh-name counter and the shared environment dictionary can be  *)
(* observed after every step.                                              *)
(***************************************************************************)
EXTENDS Integers, Sequences, FiniteSets, TLC

VARIABLES op, in1, in2, pc, stack, counter, env, result

vars == <<op, in1, in2, pc, stack, counter, env, result>>

(***************************************************************************)
(* Bounds of the explored inputs.                                          *)
(***************************************************************************)
\* largest number of nodes of an exhaustively enumerated input term
MaxNodes == 3
\* longest list handed to anti_unify_list
MaxLen == 2

(***************************************************************************)
(* Term syntax.  A frozen dataclass compares by class and by fields, so a  *)
(* term is a record carrying its class in "tag".                           *)
(***************************************************************************)
Var(n) == [tag |-> "Var", name |-> n]

Const(n) == [tag |-> "Const", name |-> n]

Func(s, as) == [tag |-> "Func", symbol |-> s, args |-> as]

App(f, a) == [tag |-> "App", fun |-> f, arg |-> a]

Lam(x, b) == [tag |-> "Lam", var |-> x, body |-> b]

\* the value of a variable that holds nothing yet
None == [tag |-> "None"]

Min(a, b) == IF a <= b THEN a ELSE b

(***************************************************************************)
(* Fresh names and the environment.  The environment is a Python dict: an  *)
(* insertion-ordered sequence of entries, an assignment to a present key   *)
(* overwrites its entry in place, an assignment to a new key appends.      *)
(***************************************************************************)
\* f"{prefix}{counter}"
FreshName(prefix, n) == prefix \o ToString(n)

\* faulty variant: the counter is not incremented
FreshVarStuck(prefix, n) == [v |-> Var(FreshName(prefix, n)), counter |-> n]

\* fresh_var: the variable minted and the counter after it
FreshVar(prefix, n) == [v |-> Var(FreshName(prefix, n)), counter |-> n + 1]

HasKey(e, k) == \E j \in 1..Len(e) : e[j].key = k

\* env[k] = (l, r)
DictSet(e, k, l, r) ==
    IF HasKey(e, k)
    THEN [j \in 1..Len(e) |-> IF e[j].key = k
                              THEN [key |-> k, left |-> l, right |-> r]
                              ELSE e[j]]
    ELSE Append(e, [key |-> k, left |-> l, right |-> r])

\* faulty variant: the scan also accepts the pair in the other order
MatchesSymmetric(e, t1, t2) ==
    {j \in 1..Len(e) : \/ e[j].left = t1 /\ e[j].right = t2
                       \/ e[j].left = t2 /\ e[j].right = t1}

\* the indices of the entries the reuse scan accepts, in scan order
Matches(e, t1, t2) == {j \in 1..Len(e) : e[j].left = t1 /\ e[j].right = t2}

\* the first entry of the scan "for v, (u1, u2) in env.items()"
FirstMatch(e, t1, t2) ==
    LET m == Matches(e, t1, t2)
    IN  CHOOSE j \in m : \A k \in m : j <= k

(***************************************************************************)
(* The call stack.  A frame is one active call: its function, its          *)
(* arguments (ctx is used by _ho_au only), the point it has reached (ph),  *)
(* the loop index i, the list built so far (acc) and a local name.         *)
(***************************************************************************)
Frame(fn, t1, t2, ctx, ph) ==
    [fn |-> fn, t1 |-> t1, t2 |-> t2, ctx |-> ctx, ph |-> ph,
     i |-> 1, acc |-> <<>>, name |-> ""]

Top == stack[Len(stack)]

\* the caller takes the value returned to it
Deliver(p, val) ==
    IF p.ph = "body"
    THEN [p EXCEPT !.ph = "rebuild", !.acc = <<val>>]
    ELSE [p EXCEPT !.acc = Append(@, val), !.i = @ + 1]

\* "return val, env" of the call on top of the stack
Return(val) ==
    IF Len(stack) = 1
    THEN /\ stack' = <<>>
         /\ result' = val
         /\ pc' = "done"
    ELSE /\ stack' = Append(SubSeq(stack, 1, Len(stack) - 2),
                            Deliver(stack[Len(stack) - 1], val))
         /\ UNCHANGED <<result, pc>>

Running(fn, ph) ==
    /\ pc = "run"
    /\ stack # <<>>
    /\ Top.fn = fn
    /\ Top.ph = ph

(***************************************************************************)
(* First-order engine.                                                     *)
(***************************************************************************)
\* faulty variant: equal constants are not recognised as identical
IdenticalExceptConst(t1, t2) == t1 = t2 /\ t1.tag # "Const"

\* "if t1 == t2" of both engines
Identical(t1, t2) == t1 = t2

\* same function symbol & arity
SameHead(t1, t2) ==
    /\ t1.tag = "Func"
    /\ t2.tag = "Func"
    /\ t1.symbol = t2.symbol
    /\ Len(t1.args) = Len(t2.args)

\* zip(xs, ys) stops at the shorter sequence
ZipLen(xs, ys) == Min(Len(xs), Len(ys))

\* anti_unify(t1, t2) called from outside: st and env are created
AUCall ==
    /\ pc = "start"
    /\ op = "anti_unify"
    /\ pc' = "run"
    /\ stack' = <<Frame("anti_unify", in1, in2, <<>>, "enter")>>
    /\ counter' = 0
    /\ env' = <<>>
    /\ UNCHANGED <<op, in1, in2, result>>

AUIdentical ==
    /\ Running("anti_unify", "enter")
    /\ Identical(Top.t1, Top.t2)
    /\ Return(Top.t1)
    /\ UNCHANGED <<op, in1, in2, counter, env>>

AUArgs ==
    /\ Running("anti_unify", "enter")
    /\ ~Identical(Top.t1, Top.t2)
    /\ SameHead(Top.t1, Top.t2)
    /\ stack' = [stack EXCEPT ![Len(stack)].ph = "loop"]
    /\ UNCHANGED <<op, in1, in2, pc, counter, env, result>>

AULoop ==
    /\ Running("anti_unify", "loop")
    /\ Top.i <= ZipLen(Top.t1.args, Top.t2.args)
    /\ stack' = Append(stack, Frame("anti_unify", Top.t1.args[Top.i],
                                    Top.t2.args[Top.i], <<>>, "enter"))
    /\ UNCHANGED <<op, in1, in2, pc, counter, env, result>>

AULoopEnd ==
    /\ Running("anti_unify", "loop")
    /\ Top.i > ZipLen(Top.t1.args, Top.t2.args)
    /\ Return(Func(Top.t1.symbol, Top.acc))
    /\ UNCHANGED <<op, in1, in2, counter, env>>

AUReuse ==
    /\ Running("anti_unify", "enter")
    /\ ~Identical(Top.t1, Top.t2)
    /\ ~SameHead(Top.t1, Top.t2)
    /\ Matches(env, Top.t1, Top.t2) # {}
    /\ Return(env[FirstMatch(env, Top.t1, Top.t2)].key)
    /\ UNCHANGED <<op, in1, in2, counter, env>>

AUFresh ==
    /\ Running("anti_unify", "enter")
    /\ ~Identical(Top.t1, Top.t2)
    /\ ~SameHead(Top.t1, Top.t2)
    /\ Matches(env, Top.t1, Top.t2) = {}
    /\ LET f == FreshVar("X", counter)
       IN  /\ counter' = f.counter
           /\ env' = DictSet(env, f.v, Top.t1, Top.t2)
           /\ Return(f.v)
    /\ UNCHANGED <<op, in1, in2>>

\* faulty variant: only a longer first list is rejected
LengthMismatchOneWay(ts1, ts2) == Len(ts1) > Len(ts2)

\* "if len(ts1) != len(ts2)"
LengthMismatch(ts1, ts2) == Len(ts1) # Len(ts2)

ListRaise ==
    /\ pc = "start"
    /\ op = "anti_unify_list"
    /\ LengthMismatch(in1, in2)
    /\ pc' = "raised"
    /\ UNCHANGED <<op, in1, in2, stack, counter, env, result>>

ListCall ==
    /\ pc = "start"
    /\ op = "anti_unify_list"
    /\ ~LengthMismatch(in1, in2)
    /\ pc' = "run"
    /\ stack' = <<Frame("anti_unify_list", in1, in2, <<>>, "loop")>>
    /\ counter' = 0
    /\ env' = <<>>
    /\ UNCHANGED <<op, in1, in2, result>>

ListLoop ==
    /\ Running("anti_unify_list", "loop")
    /\ Top.i <= ZipLen(Top.t1, Top.t2)
    /\ stack' = Append(stack, Frame("anti_unify", Top.t1[Top.i],
                                    Top.t2[Top.i], <<>>, "enter"))
    /\ UNCHANGED <<op, in1, in2, pc, counter, env, result>>

ListEnd ==
    /\ Running("anti_unify_list", "loop")
    /\ Top.i > ZipLen(Top.t1, Top.t2)
    /\ Return(Top.acc)
    /\ UNCHANGED <<op, in1, in2, counter, env>>

(***************************************************************************)
(* Inputs of the first-order engine.                                       *)
(***************************************************************************)
FOAtoms == {Var("X0"), Const("a"), Const("b")}

FOSymbols == {"f", "g"}

RECURSIVE FOSized(_), FOArgs(_)
\* the terms of exactly n nodes
FOSized(n) ==
    IF n = 1 THEN FOAtoms
    ELSE {Func(s, as) : s \in FOSymbols, as \in FOArgs(n - 1)}

\* the non-empty argument tuples of k nodes in all
FOArgs(k) ==
    IF k = 0 THEN {<<>>}
    ELSE UNION {{<<t>> \o r : t \in FOSized(j), r \in FOArgs(k - j)} : j \in 1..k}

FOTerms == UNION {FOSized(n) : n \in 1..MaxNodes}

\* f(a, g(b)) and f(c, g(d)), the pair of the module's own demonstration
FODemo1 == Func("f", <<Const("a"), Func("g", <<Const("b")>>)>>)

FODemo2 == Func("f", <<Const("c"), Func("g", <<Const("d")>>)>>)

\* further pairs: nullary and ternary applications, a deeper collision
FOExtraPairs ==
    {<<FODemo1, FODemo2>>,
     <<Func("f", <<>>), Func("f", <<>>)>>,
     <<Func("f", <<>>), Func("g", <<>>)>>,
     <<Func("f", <<>>), Func("f", <<Const("a")>>)>>,
     <<Func("f", <<Const("a"), Const("b"), Const("a")>>),
       Func("f", <<Const("b"), Const("a"), Const("b")>>)>>,
     <<Func("f", <<Var("X1"), Const("a"), Const("b")>>),
       Func("f", <<Var("X1"), Const("b"), Const("a")>>)>>}

FOPairs == (FOTerms \X FOTerms) \cup FOExtraPairs

ListElems == {Var("X0"), Const("a"), Const("b"),
              Func("f", <<Const("a")>>), Func("f", <<Const("b")>>)}

RECURSIVE ListsOf(_)
ListsOf(n) ==
    IF n = 0 THEN {<<>>}
    ELSE {Append(l, t) : l \in ListsOf(n - 1), t \in ListElems}

FOLists == UNION {ListsOf(n) : n \in 0..MaxLen}

\* the lists of the module's own demonstration
ListDemo1 == <<Const("a"), Func("h", <<Const("b"), Const("c")>>)>>

ListDemo2 == <<Const("x"), Func("h", <<Const("y"), Const("c")>>)>>

FOListPairs == (FOLists \X FOLists) \cup {<<ListDemo1, ListDemo2>>}

(***************************************************************************)
(* Higher-order engine: helpers.                                           *)
(***************************************************************************)
RECURSIVE Reverse(_)
\* args.reverse()
Reverse(xs) == IF xs = <<>> THEN <<>> ELSE Append(Reverse(Tail(xs)), Head(xs))

RECURSIVE SpineWalk(_, _)
\* the while loop of _spine: collect the arguments outside-in, then reverse
SpineWalk(t, args) ==
    IF t.tag = "App"
    THEN SpineWalk(t.fun, Append(args, t.arg))
    ELSE [head |-> t, args |-> Reverse(args)]

\* _spine(t): (((f a) b) c) -> (f, [a, b, c])
Spine(t) == SpineWalk(t, <<>>)

RECURSIVE ApplyAll(_, _)
\* "for v in xs: t = App(t, v)"
ApplyAll(t, xs) ==
    IF xs = <<>> THEN t ELSE ApplyAll(App(t, Head(xs)), Tail(xs))

\* faulty variant: the context is applied innermost binder first
ApplyCtxReversed(f, ctx) == ApplyAll(f, Reverse(ctx))

\* _apply_ctx(f, ctx): F x1 ... xn
ApplyCtx(f, ctx) == ApplyAll(f, ctx)

\* _rebuild_app(head, args)
RebuildApp(head, args) == ApplyAll(head, args)

\* _fresh_bound_name(x, y)
FreshBoundName(x, y) == IF x = y THEN x ELSE "z"

RECURSIVE SubstBoundDeep(_, _, _)
\* faulty variant: the substitution also enters a Lam that rebinds old
SubstBoundDeep(t, old, v) ==
    IF t.tag = "Var" THEN (IF t.name = old THEN v ELSE t)
    ELSE IF t.tag = "Const" THEN t
    ELSE IF t.tag = "App"
         THEN App(SubstBoundDeep(t.fun, old, v), SubstBoundDeep(t.arg, old, v))
    ELSE Lam(t.var, SubstBoundDeep(t.body, old, v))

RECURSIVE SubstBound(_, _, _)
\* _subst_bound(t, old, v)
SubstBound(t, old, v) ==
    IF t.tag = "Var" THEN (IF t.name = old THEN v ELSE t)
    ELSE IF t.tag = "Const" THEN t
    ELSE IF t.tag = "App"
         THEN App(SubstBound(t.fun, old, v), SubstBound(t.arg, old, v))
    ELSE IF t.var = old THEN t
    ELSE Lam(t.var, SubstBound(t.body, old, v))

\* isinstance(t1, Lam) and isinstance(t2, Lam)
BothLam(t1, t2) == t1.tag = "Lam" /\ t2.tag = "Lam"

\* rigid-rigid: constant heads with the same symbol and as many arguments
RigidRigid(t1, t2) ==
    LET s1 == Spine(t1)
        s2 == Spine(t2)
    IN  /\ s1.head.tag = "Const"
        /\ s2.head.tag = "Const"
        /\ s1.head.name = s2.head.name
        /\ Len(s1.args) = Len(s2.args)

(***************************************************************************)
(* Higher-order engine: ho_anti_unify and the branches of _ho_au.          *)
(***************************************************************************)
HOCall ==
    /\ pc = "start"
    /\ op = "ho_anti_unify"
    /\ pc' = "run"
    /\ stack' = <<Frame("_ho_au", in1, in2, <<>>, "enter")>>
    /\ counter' = 0
    /\ env' = <<>>
    /\ UNCHANGED <<op, in1, in2, result>>

HOIdentical ==
    /\ Running("_ho_au", "enter")
    /\ Identical(Top.t1, Top.t2)
    /\ Return(Top.t1)
    /\ UNCHANGED <<op, in1, in2, counter, env>>

\* both lambdas: rename to a common bound name and recurse into the bodies
HOLam ==
    /\ Running("_ho_au", "enter")
    /\ ~Identical(Top.t1, Top.t2)
    /\ BothLam(Top.t1, Top.t2)
    /\ LET fresh_name == FreshBoundName(Top.t1.var, Top.t2.var)
           v == Var(fresh_name)
           body1 == SubstBound(Top.t1.body, Top.t1.var, v)
           body2 == SubstBound(Top.t2.body, Top.t2.var, v)
       IN  stack' = Append([stack EXCEPT ![Len(stack)].ph = "body",
                                         ![Len(stack)].name = fresh_name],
                           Frame("_ho_au", body1, body2,
                                 Append(Top.ctx, v), "enter"))
    /\ UNCHANGED <<op, in1, in2, pc, counter, env, result>>

HOLamEnd ==
    /\ Running("_ho_au", "rebuild")
    /\ Return(Lam(Top.name, Top.acc[1]))
    /\ UNCHANGED <<op, in1, in2, counter, env>>

HORigid ==
    /\ Running("_ho_au", "enter")
    /\ ~Identical(Top.t1, Top.t2)
    /\ ~BothLam(Top.t1, Top.t2)
    /\ RigidRigid(Top.t1, Top.t2)
    /\ stack' = [stack EXCEPT ![Len(stack)].ph = "loop"]
    /\ UNCHANGED <<op, in1, in2, pc, counter, env, result>>

HOLoop ==
    /\ Running("_ho_au", "loop")
    /\ LET args1 == Spine(Top.t1).args
           args2 == Spine(Top.t2).args
       IN  /\ Top.i <= ZipLen(args1, args2)
           /\ stack' = Append(stack, Frame("_ho_au", args1[Top.i],
                                           args2[Top.i], Top.ctx, "enter"))
    /\ UNCHANGED <<op, in1, in2, pc, counter, env, result>>

HOLoopEnd ==
    /\ Running("_ho_au", "loop")
    /\ Top.i > ZipLen(Spine(Top.t1).args, Spine(Top.t2).args)
    /\ Return(RebuildApp(Spine(Top.t1).head, Top.acc))
    /\ UNCHANGED <<op, in1, in2, counter, env>>

HOReuse ==
    /\ Running("_ho_au", "enter")
    /\ ~Identical(Top.t1, Top.t2)
    /\ ~BothLam(Top.t1, Top.t2)
    /\ ~RigidRigid(Top.t1, Top.t2)
    /\ Matches(env, Top.t1, Top.t2) # {}
    /\ Return(ApplyCtx(env[FirstMatch(env, Top.t1, Top.t2)].key, Top.ctx))
    /\ UNCHANGED <<op, in1, in2, counter, env>>

HOFresh ==
    /\ Running("_ho_au", "enter")
    /\ ~Identical(Top.t1, Top.t2)
    /\ ~BothLam(Top.t1, Top.t2)
    /\ ~RigidRigid(Top.t1, Top.t2)
    /\ Matches(env, Top.t1, Top.t2) = {}
    /\ LET f == FreshVar("F", counter)
       IN  /\ counter' = f.counter
           /\ env' = DictSet(env, f.v, Top.t1, Top.t2)
           /\ Return(ApplyCtx(f.v, Top.ctx))
    /\ UNCHANGED <<op, in1, in2>>

\* _subst_bound(t, old, v) called on its own
SubstCall ==
    /\ pc = "start"
    /\ op = "_subst_bound"
    /\ pc' = "done"
    /\ result' = SubstBound(in1, in2.old, in2.v)
    /\ UNCHANGED <<op, in1, in2, stack, counter, env>>

(***************************************************************************)
(* Inputs of the higher-order engine.                                      *)
(***************************************************************************)
HOAtoms == {Var("x"), Var("y"), Var("z"), Const("f"), Const("g")}

HOBinders == {"x", "y"}

RECURSIVE HOSized(_)
\* the terms of exactly n nodes
HOSized(n) ==
    IF n = 1 THEN HOAtoms
    ELSE {Lam(b, t) : b \in HOBinders, t \in HOSized(n - 1)}
         \cup UNION {{App(s, t) : s \in HOSized(j), t \in HOSized(n - 1 - j)}
                     : j \in 1..(n - 2)}

HOTerms == UNION {HOSized(n) : n \in 1..MaxNodes}

\* example 1 of the module's demonstration: \x. f x and \x. g x
HODemo1L == Lam("x", App(Const("f"), Var("x")))

HODemo1R == Lam("x", App(Const("g"), Var("x")))

\* example 2: \x. T (G x) and \y. T (H y)
HODemo2L == Lam("x", App(Const("T"), App(Const("G"), Var("x"))))

HODemo2R == Lam("y", App(Const("T"), App(Const("H"), Var("y"))))

\* one mismatched pair under a binder and outside it: T (\x. a) a, T (\x. b) b
HOMixedL == App(App(Const("T"), Lam("x", Const("a"))), Const("a"))

HOMixedR == App(App(Const("T"), Lam("x", Const("b"))), Const("b"))

HOExtraPairs ==
    {<<HODemo1L, HODemo1R>>,
     <<HODemo2L, HODemo2R>>,
     <<HOMixedL, HOMixedR>>,
     <<HOMixedR, HOMixedL>>,
     <<App(App(Const("T"), Const("a")), Lam("x", Const("a"))),
       App(App(Const("T"), Const("b")), Lam("x", Const("b")))>>,
     <<App(App(Const("T"), Const("a")), Const("a")),
       App(App(Const("T"), Const("b")), Const("b"))>>,
     <<App(App(Const("T"), Const("a")), Const("b")),
       App(App(Const("T"), Const("b")), Const("a"))>>,
     <<App(App(Const("T"), Var("F0")), Const("a")),
       App(App(Const("T"), Var("F0")), Const("b"))>>,
     <<Lam("x", Lam("y", App(App(Const("f"), Var("x")), Var("y")))),
       Lam("x", Lam("y", App(App(Const("g"), Var("x")), Var("y"))))>>,
     <<Lam("x", App(App(Const("T"), Var("F0")), Lam("y", Const("a")))),
       Lam("x", App(App(Const("T"), Var("F0")), Lam("y", Const("b"))))>>,
     <<Lam("x", App(Const("T"), Lam("x", Var("x")))),
       Lam("y", App(Const("T"), Lam("x", Var("y"))))>>}

HOPairs == (HOTerms \X HOTerms) \cup HOExtraPairs

SubstTerms ==
    HOTerms \cup {App(Var("x"), Lam("x", Var("x"))),
                  Lam("y", App(Var("x"), Lam("x", Var("x")))),
                  App(Lam("x", App(Var("x"), Var("y"))), App(Var("x"), Var("y")))}

SubstArgs == [old : {"x", "y"}, v : {Var("z"), Var("x"), Var("y")}]

InitAU ==
    /\ op = "anti_unify"
    /\ \E p \in FOPairs : in1 = p[1] /\ in2 = p[2]

InitList ==
    /\ op = "anti_unify_list"
    /\ \E p \in FOListPairs : in1 = p[1] /\ in2 = p[2]

InitHO ==
    /\ op = "ho_anti_unify"
    /\ \E p \in HOPairs : in1 = p[1] /\ in2 = p[2]

InitSubst ==
    /\ op = "_subst_bound"
    /\ in1 \in SubstTerms
    /\ in2 \in SubstArgs

Init ==
    /\ \/ InitAU
       \/ InitList
       \/ InitHO
       \/ InitSubst
    /\ pc = "start"
    /\ stack = <<>>
    /\ counter = 0
    /\ env = <<>>
    /\ result = None

Next ==
    \/ AUCall
    \/ AUIdentical
    \/ AUArgs
    \/ AULoop
    \/ AULoopEnd
    \/ AUReuse
    \/ AUFresh
    \/ ListRaise
    \/ ListCall
    \/ ListLoop
    \/ ListEnd
    \/ HOCall
    \/ HOIdentical
    \/ HOLam
    \/ HOLamEnd
    \/ HORigid
    \/ HOLoop
    \/ HOLoopEnd
    \/ HOReuse
    \/ HOFresh
    \/ SubstCall

Spec == Init /\ [][Next]_vars

(***************************************************************************)
(* Vocabulary of the properties.                                           *)
(***************************************************************************)
Finished(o) == pc = "done" /\ op = o

EntryOf(e, k) == e[CHOOSE j \in 1..Len(e) : e[j].key = k]

RECURSIVE Instantiate(_, _, _)
\* g with every variable that is a key of e replaced by one side of its pair
Instantiate(g, e, side) ==
    IF g.tag = "Var"
    THEN (IF HasKey(e, g)
          THEN (IF side = "left" THEN EntryOf(e, g).left ELSE EntryOf(e, g).right)
          ELSE g)
    ELSE IF g.tag = "Const" THEN g
    ELSE IF g.tag = "Func"
         THEN Func(g.symbol, [j \in 1..Len(g.args) |-> Instantiate(g.args[j], e, side)])
    ELSE IF g.tag = "App"
         THEN App(Instantiate(g.fun, e, side), Instantiate(g.arg, e, side))
    ELSE Lam(g.var, Instantiate(g.body, e, side))

\* no two entries store the same ordered pair
PairsDistinct(e) ==
    \A j, k \in 1..Len(e) :
        (e[j].left = e[k].left /\ e[j].right = e[k].right) => j = k

\* g is a key of e and e maps it to exactly the ordered pair (t1, t2)
StandsFor(e, g, t1, t2) ==
    /\ g.tag = "Var"
    /\ \E j \in 1..Len(e) : e[j].key = g
    /\ \A j \in 1..Len(e) : e[j].key = g => (e[j].left = t1 /\ e[j].right = t2)

(***************************************************************************)
(* C1.  Instance property of the first-order engine: replacing every       *)
(* variable of the generalization that is a key of the environment by the  *)
(* left component of its pair yields t1, by the right component yields t2. *)
(***************************************************************************)
C1_InstanceFO ==
    Finished("anti_unify") =>
        /\ Instantiate(result, env, "left") = in1
        /\ Instantiate(result, env, "right") = in2

(***************************************************************************)
(* C2.  Instance property of the higher-order engine: substituting every   *)
(* environment variable of the generalization by the left component of its *)
(* pair reproduces t1, by the right component reproduces t2.               *)
(***************************************************************************)
C2_InstanceHO ==
    Finished("ho_anti_unify") =>
        /\ Instantiate(result, env, "left") = in1
        /\ Instantiate(result, env, "right") = in2

(***************************************************************************)
(* C3.  Reflexivity: anti_unify(t, t) and ho_anti_unify(t, t) return t     *)
(* itself with an empty environment, and no fresh variable is minted.      *)
(***************************************************************************)
C3_Reflexivity ==
    ((Finished("anti_unify") \/ Finished("ho_anti_unify")) /\ in1 = in2) =>
        /\ result = in1
        /\ env = <<>>
        /\ counter = 0

C3_Witness ==
    /\ Finished("ho_anti_unify")
    /\ in1 = in2
    /\ in1.tag = "Lam"
    /\ result = in1

(***************************************************************************)
(* C4.  Sharing in the first-order engine: every position where the        *)
(* ordered pair (s1, s2) mismatches holds the one variable the environment *)
(* maps to exactly (s1, s2), the environment has one entry per pair, and   *)
(* f(a, a), f(b, b) generalize to f(X0, X0) with {X0: (a, b)}.  The pair   *)
(* (s2, s1) is another pair and has another variable.                      *)
(***************************************************************************)
RECURSIVE SharedAt(_, _, _, _)
SharedAt(e, g, t1, t2) ==
    IF t1 = t2 THEN g = t1
    ELSE IF /\ t1.tag = "Func" /\ t2.tag = "Func"
            /\ t1.symbol = t2.symbol /\ Len(t1.args) = Len(t2.args)
         THEN /\ g.tag = "Func"
              /\ g.symbol = t1.symbol
              /\ Len(g.args) = Len(t1.args)
              /\ \A j \in 1..Len(t1.args) :
                     SharedAt(e, g.args[j], t1.args[j], t2.args[j])
    ELSE StandsFor(e, g, t1, t2)

FAA == Func("f", <<Const("a"), Const("a")>>)

FBB == Func("f", <<Const("b"), Const("b")>>)

FAB == Func("f", <<Const("a"), Const("b")>>)

FBA == Func("f", <<Const("b"), Const("a")>>)

\* C4: shared variable per ordered mismatched pair, one entry per pair
C4_Sharing ==
    Finished("anti_unify") =>
        /\ SharedAt(env, result, in1, in2)
        /\ PairsDistinct(env)
        /\ (in1 = FAA /\ in2 = FBB) =>
               /\ result = Func("f", <<Var("X0"), Var("X0")>>)
               /\ env = <<[key |-> Var("X0"), left |-> Const("a"),
                           right |-> Const("b")]>>
        /\ (in1 = FAB /\ in2 = FBA) =>
               result = Func("f", <<Var("X0"), Var("X1")>>)

C4_Witness ==
    /\ Finished("anti_unify")
    /\ in1 = FAA
    /\ in2 = FBB
    /\ result = Func("f", <<Var("X0"), Var("X0")>>)
    /\ Len(env) = 1

(***************************************************************************)
(* C5.  Binder-parametrized mismatch: ho_anti_unify(\x. f x, \x. g x)      *)
(* returns \x. F0 x with the environment exactly {F0: (f, g)}.             *)
(***************************************************************************)
C5_BinderMismatch ==
    (Finished("ho_anti_unify") /\ in1 = HODemo1L /\ in2 = HODemo1R) =>
        /\ result = Lam("x", App(Var("F0"), Var("x")))
        /\ env = <<[key |-> Var("F0"), left |-> Const("f"),
                    right |-> Const("g")]>>

(***************************************************************************)
(* C6.  Cross-name binder unification: ho_anti_unify(\x. T (G x),          *)
(* \y. T (H y)) returns \z. T (F0 z) with the environment exactly          *)
(* {F0: (G, H)}.                                                           *)
(***************************************************************************)
C6_CrossName ==
    (Finished("ho_anti_unify") /\ in1 = HODemo2L /\ in2 = HODemo2R) =>
        /\ result = Lam("z", App(Const("T"), App(Var("F0"), Var("z"))))
        /\ env = <<[key |-> Var("F0"), left |-> Const("G"),
                    right |-> Const("H")]>>

(***************************************************************************)
(* C7.  List-length failure: with lists of different length                *)
(* anti_unify_list raises before anything is generalized (no output, no    *)
(* environment entry, no fresh variable, no call of anti_unify); with      *)
(* lists of equal length it never raises and returns a list of that        *)
(* length.                                                                 *)
(***************************************************************************)
C7_ListLength ==
    op = "anti_unify_list" =>
        /\ Len(in1) # Len(in2) =>
               /\ pc \in {"start", "raised"}
               /\ stack = <<>>
               /\ result = None
               /\ env = <<>>
               /\ counter = 0
        /\ Len(in1) = Len(in2) =>
               /\ pc # "raised"
               /\ pc = "done" => Len(result) = Len(in1)

C7_Witness ==
    /\ op = "anti_unify_list"
    /\ pc = "raised"
    /\ Len(in1) = 1
    /\ Len(in2) = 2

(***************************************************************************)
(* C8.  Context parametrization in the higher-order engine.                *)
(***************************************************************************)
SeqRange(xs) == {xs[j] : j \in 1..Len(xs)}

RECURSIVE FreeVars(_)
\* the variables of t that no Lam of t binds
FreeVars(t) ==
    IF t.tag = "Var" THEN {t}
    ELSE IF t.tag = "Const" THEN {}
    ELSE IF t.tag = "App" THEN FreeVars(t.fun) \cup FreeVars(t.arg)
    ELSE FreeVars(t.body) \ {Var(t.var)}

RECURSIVE Occurrences(_, _)
\* every variable occurrence of t with the arguments it is applied to and the
\* binders open around it, outermost first
Occurrences(t, open) ==
    IF t.tag = "Lam" THEN Occurrences(t.body, Append(open, Var(t.var)))
    ELSE LET s == Spine(t)
         IN  (IF s.head.tag = "Var"
              THEN {[v |-> s.head, args |-> s.args, open |-> open]}
              ELSE IF s.head.tag = "Lam" THEN Occurrences(s.head, open)
              ELSE {})
             \cup UNION {Occurrences(s.args[j], open) : j \in 1..Len(s.args)}

\* C8 as stated: each occurrence of an environment variable in the
\* generalization is applied to exactly the binder variables open at that
\* position, outermost first; hence all occurrences of one environment
\* variable have the same number of arguments; and the stored subterms have
\* no free binder variable that is not among the arguments.
C8_AllOccurrences ==
    Finished("ho_anti_unify") =>
        LET occ == {o \in Occurrences(result, <<>>) : HasKey(env, o.v)}
        IN  /\ \A o \in occ : o.args = o.open
            /\ \A o1, o2 \in occ : o1.v = o2.v => Len(o1.args) = Len(o2.args)
            /\ \A o \in occ :
                   ((FreeVars(EntryOf(env, o.v).left)
                     \cup FreeVars(EntryOf(env, o.v).right))
                    \cap SeqRange(o.open)) \subseteq SeqRange(o.args)

RECURSIVE AppliedToContext(_, _, _, _, _)
\* g follows the recursion on (t1, t2) and every mismatch position of it holds
\* the variable of that pair applied to exactly the open binders ctx
AppliedToContext(e, g, t1, t2, ctx) ==
    IF t1 = t2 THEN g = t1
    ELSE IF t1.tag = "Lam" /\ t2.tag = "Lam"
         THEN LET n == IF t1.var = t2.var THEN t1.var ELSE "z"
              IN  /\ g.tag = "Lam"
                  /\ g.var = n
                  /\ AppliedToContext(e, g.body,
                                      SubstBound(t1.body, t1.var, Var(n)),
                                      SubstBound(t2.body, t2.var, Var(n)),
                                      Append(ctx, Var(n)))
    ELSE IF RigidRigid(t1, t2)
         THEN LET sg == Spine(g)
                  s1 == Spine(t1)
                  s2 == Spine(t2)
              IN  /\ sg.head = s1.head
                  /\ Len(sg.args) = Len(s1.args)
                  /\ \A j \in 1..Len(s1.args) :
                         AppliedToContext(e, sg.args[j], s1.args[j],
                                          s2.args[j], ctx)
    ELSE LET sg == Spine(g)
         IN  /\ StandsFor(e, sg.head, t1, t2)
             /\ sg.args = ctx
             /\ ((FreeVars(t1) \cup FreeVars(t2)) \cap SeqRange(ctx))
                    \subseteq SeqRange(sg.args)

HOMixedGen ==
    App(App(Const("T"), Lam("x", App(Var("F0"), Var("x")))), Var("F0"))

\* C8 as amended: at each position where _ho_au takes the mismatch case, the
\* generalization holds the environment variable of that pair (fresh or
\* reused) applied to exactly the binder variables open at that position,
\* outermost first, and the stored subterms have no free open binder variable
\* that is not among these arguments.  The reuse is keyed on the pair alone:
\* one variable met under different binder contexts carries different numbers
\* of arguments, as in T (\x. F0 x) F0.
C8_MismatchPositions ==
    Finished("ho_anti_unify") =>
        /\ AppliedToContext(env, result, in1, in2, <<>>)
        /\ (in1 = HOMixedL /\ in2 = HOMixedR) => result = HOMixedGen

C8_Witness ==
    /\ Finished("ho_anti_unify")
    /\ in1 = HOMixedL
    /\ in2 = HOMixedR
    /\ result = HOMixedGen
    /\ Len(env) = 1

(***************************************************************************)
(* C9.  Shadowing safety of _subst_bound(t, old, v): every occurrence of   *)
(* Var(old) that is not under a nested Lam binding old is replaced by v, a *)
(* nested Lam binding old is returned unchanged, constants and variables   *)
(* of another name are returned unchanged.                                 *)
(***************************************************************************)
RECURSIVE Paths(_)
\* the positions of t, as the field names leading to them
Paths(t) ==
    {<<>>} \cup
    (IF t.tag = "App"
     THEN {<<"fun">> \o q : q \in Paths(t.fun)}
          \cup {<<"arg">> \o q : q \in Paths(t.arg)}
     ELSE IF t.tag = "Lam" THEN {<<"body">> \o q : q \in Paths(t.body)}
     ELSE {})

RECURSIVE At(_, _)
\* the subterm of t at position q, None where t has no such position
At(t, q) ==
    IF q = <<>> THEN t
    ELSE IF Head(q) = "fun" /\ t.tag = "App" THEN At(t.fun, Tail(q))
    ELSE IF Head(q) = "arg" /\ t.tag = "App" THEN At(t.arg, Tail(q))
    ELSE IF Head(q) = "body" /\ t.tag = "Lam" THEN At(t.body, Tail(q))
    ELSE None

\* the names bound by the Lams strictly above position q of t
BoundAbove(t, q) ==
    {At(t, SubSeq(q, 1, k)).var :
        k \in {j \in 0..(Len(q) - 1) : At(t, SubSeq(q, 1, j)).tag = "Lam"}}

\* C9: _subst_bound rewrites exactly the occurrences of old that no nested
\* Lam rebinds
C9_ShadowingSafe ==
    Finished("_subst_bound") =>
        \A q \in Paths(in1) :
            in2.old \notin BoundAbove(in1, q) =>
                LET s == At(in1, q)
                    r == At(result, q)
                IN  IF s.tag = "Var"
                    THEN r = (IF s.name = in2.old THEN in2.v ELSE s)
                    ELSE IF s.tag = "Const" THEN r = s
                    ELSE IF s.tag = "Lam"
                         THEN (IF s.var = in2.old
                               THEN r = s
                               ELSE r.tag = "Lam" /\ r.var = s.var)
                    ELSE r.tag = "App"

C9_Witness ==
    /\ Finished("_subst_bound")
    /\ in1 = App(Var("x"), Lam("x", Var("x")))
    /\ in2 = [old |-> "x", v |-> Var("z")]
    /\ result = App(Var("z"), Lam("x", Var("x")))

(***************************************************************************)
(* C10.  Environment and counter: at every step of a call the environment  *)
(* only grows at its end (no entry is removed or overwritten), it has as   *)
(* many entries as the counter counts, its keys are the variables numbered *)
(* 0 .. counter-1 with the prefix of the engine (X or F), no two entries   *)
(* store the same ordered pair, and the two terms of a pair differ.        *)
(***************************************************************************)
Prefix == IF op = "ho_anti_unify" THEN "F" ELSE "X"

EnvWellFormed ==
    /\ Len(env) = counter
    /\ \A j \in 1..Len(env) : env[j].key = Var(Prefix \o ToString(j - 1))
    /\ PairsDistinct(env)
    /\ \A j \in 1..Len(env) : env[j].left # env[j].right

EnvAppendOnly ==
    /\ Len(env') >= Len(env)
    /\ SubSeq(env', 1, Len(env)) = env

\* C10: the environment is well formed in every state and every step only
\* appends to it
C10_EnvCounter == []EnvWellFormed /\ [][EnvAppendOnly]_vars

C10_Witness ==
    /\ pc = "run"
    /\ op = "anti_unify_list"
    /\ Len(env) = 2
    /\ counter = 2

====
